---- MODULE Spec2Model ----
(***************************************************************************)
(* Beat Saber Auto-Mapper: the job orchestrator of app.py                  *)
(* (process_audio_file, install_julia_handler) and the runtime installer   *)
(* of julia_setup.py, as state machines over a small file system.          *)
(*                                                                         *)
(* Conventions.  A Python value is a record [t, v]: Str(s), PyNone,        *)
(* PyTrue, PyFalse.  A file or directory name is a sequence of one-token   *)
(* strings (<<"a", ".", "w">> is "a.w"), so that os.path.splitext,         *)
(* str.endswith and the f-string concatenations are computed, not assumed. *)
(* A path is a sequence of names.  A diagnostic text (stderr, stdout, an   *)
(* exception message) is an opaque string; `x in text` is Has(text, x).    *)
(***************************************************************************)
EXTENDS Integers, Sequences, FiniteSets, TLC

\* ------------------------------------------------------------ Python values
Str(s) == [t |-> "str", v |-> s]
PyNone == [t |-> "NoneType", v |-> "None"]
PyTrue == [t |-> "bool", v |-> "True"]
PyFalse == [t |-> "bool", v |-> "False"]

\* bool(x) of a Python value
Truthy(x) == x \notin {PyNone, PyFalse, Str("")}

IsStr(x) == x.t = "str"

\* ------------------------------------------------------------ finite maps
EmptyMap == [x \in {} |-> 0]

Put(f, k, val) == [x \in (DOMAIN f) \cup {k} |-> IF x = k THEN val ELSE f[x]]

Del(f, k) == [x \in (DOMAIN f) \ {k} |-> f[x]]

\* ============================================================ julia_setup.py
\* The installer is a function of the host it runs on.  A host (an "env") is
\* [system, machine, probe, fail_at, progress_raises, script_exists,
\*  script_ok, pyjulia_ok, pkg_fail, pkg_raises]:
\*   system, machine   platform.system(), platform.machine()
\*   probe             what the version probe of an already installed runtime
\*                     finds before any installation: PyNone or Str(path)
\*   fail_at           the I/O or subprocess step that fails, or "none"
\*   progress_raises   the UI-facing progress callback raises when called
\*   pkg_fail          which of the essential packages fails to install (its
\*                     index, 0 for none), and pkg_raises whether it fails by
\*                     subprocess.run raising rather than by a non-zero exit
\* An operator returns [val, exc, calls, temp, reports, exited0]: the Python
\* return value, the text of the exception that propagates out of it ("" when
\* it returns), the subprocess commands it ran and the URLs it opened, in
\* order, and the files it has left in the temp directory.  For the package
\* bootstrapper, reports are the fractions (in thousandths) it passed to
\* update_progress, in order, and exited0 the commands that exited 0.  For
\* ensure_julia_installation, did are the steps it called, in order.

Ret(val, calls) ==
    [val |-> val, exc |-> "", calls |-> calls, temp |-> {},
     reports |-> <<>>, exited0 |-> <<>>, did |-> <<>>]

Raise(text, calls) ==
    [val |-> PyNone, exc |-> text, calls |-> calls, temp |-> {},
     reports |-> <<>>, exited0 |-> <<>>, did |-> <<>>]

\* the outcome r of a call that has also left `files` in the temp directory
Left(r, files) == [r EXCEPT !.temp = @ \cup files]

VersionProbe(path) == <<path, "--version">>

\* urllib.request.urlopen(url)
UrlOpen(url) == <<"urlopen", url>>

\* the file tempfile.NamedTemporaryFile(delete=False) creates
temp_file == "tmp/tmpfile"

\* str.endswith('64') of platform.machine()
EndsWith64(machine) == machine \in {"AMD64", "x86_64", "aarch64", "arm64"}

\* JULIA_URLS[system][arch]; "KeyError" where the table has no such entry
JULIA_URLS(system, arch) ==
    CASE system = "Windows" /\ arch = "x64" -> "winnt/x64/1.8/julia-1.8.5-win64.exe"
      [] system = "Windows" /\ arch = "x86" -> "winnt/x86/1.8/julia-1.8.5-win32.exe"
      [] system = "Linux" /\ arch = "x64" -> "linux/x64/1.8/julia-1.8.5-linux-x86_64.tar.gz"
      [] system = "Linux" /\ arch = "aarch64" -> "linux/aarch64/1.8/julia-1.8.5-linux-aarch64.tar.gz"
      [] system = "Darwin" /\ arch = "x64" -> "mac/x64/1.8/julia-1.8.5-mac64.dmg"
      [] system = "Darwin" /\ arch = "arm64" -> "mac/aarch64/1.8/julia-1.8.5-macaarch64.dmg"
      [] OTHER -> "KeyError"

\* get_julia_path then the version call of check_julia_installation: the path
\* is returned only when `<path> --version` exits 0.
check_julia_installation(env) ==
    IF IsStr(env.probe)
    THEN Ret(env.probe, <<VersionProbe("julia"), VersionProbe(env.probe.v)>>)
    ELSE Ret(PyNone, <<VersionProbe("julia")>>)

\* download_file: streams to temp_file and moves it to target_path, or unlinks
\* temp_file and re-raises what urlopen/read raised.  temp_file is still open
\* in the except clause; on Windows os.unlink of an open file raises
\* PermissionError, which then is what propagates.
\* Its own progress reports go through the swallowing update_progress.
download_file(url, target_path, env) ==
    IF env.fail_at = "download"
    THEN IF env.system = "Windows"
         THEN Left(Raise("PermissionError: temp file in use", <<UrlOpen(url)>>),
                   {temp_file})
         ELSE Raise("URLError: download failed", <<UrlOpen(url)>>)
    ELSE Left(Ret(Str(target_path), <<UrlOpen(url)>>), {target_path})

install_julia_windows(env) ==
    LET arch == IF EndsWith64(env.machine) THEN "x64" ELSE "x86"
        url == JULIA_URLS("Windows", arch)
        installer_path == "tmp/julia-1.8.5-installer.exe"
        dl == download_file(url, installer_path, env)
    IN  IF dl.exc # "" THEN dl
        ELSE IF env.fail_at = "run"
        THEN Left(Ret(PyFalse, Append(dl.calls, <<installer_path>>)), dl.temp)
        ELSE IF env.fail_at = "oserror"
        THEN Left(Raise("OSError: cannot execute installer",
                        Append(dl.calls, <<installer_path>>)), dl.temp)
        ELSE Left(Ret(PyTrue, Append(dl.calls, <<installer_path>>)), dl.temp)

install_julia_linux(env) ==
    LET arch == IF EndsWith64(env.machine) THEN "x64"
                ELSE IF env.machine = "aarch64" THEN "aarch64" ELSE "None"
        tarball_path == "tmp/julia-1.8.5.tar.gz"
        julia_bin == "~/.julia/julia-1.8.5/bin/julia"
    IN  IF env.progress_raises
        THEN Raise("progress channel error", <<>>)
        ELSE IF arch = "None" THEN Ret(PyFalse, <<>>)
        ELSE LET dl == download_file(JULIA_URLS("Linux", arch), tarball_path, env)
             IN  IF dl.exc # "" THEN dl
                 ELSE IF env.fail_at \in {"extract", "nodir", "symlink", "profile"}
                 THEN Left(Ret(PyFalse, dl.calls), dl.temp)
                 ELSE Left(Ret(Str(julia_bin), dl.calls), dl.temp)

install_julia_macos(env) ==
    LET arch == IF env.machine = "arm64" THEN "arm64" ELSE "x64"
        dmg_path == "tmp/julia-1.8.5.dmg"
        mount_point == "/Volumes/Julia-1.8.5"
        julia_bin == "/Applications/Julia-1.8.app/Contents/Resources/julia/bin/julia"
        attach == <<"hdiutil", "attach", dmg_path>>
        cp == <<"cp", "-R", "/Volumes/Julia-1.8.5/Julia-1.8.app", "/Applications/">>
        ln == <<"sudo", "ln", "-sf", julia_bin, "/usr/local/bin/julia">>
        detach == <<"hdiutil", "detach", mount_point>>
    IN  IF env.progress_raises
        THEN Raise("progress channel error", <<>>)
        ELSE LET dl == download_file(JULIA_URLS("Darwin", arch), dmg_path, env)
             IN  IF dl.exc # "" THEN dl
                 ELSE LET ran(r, cmds) == Left([r EXCEPT !.calls = dl.calls \o cmds],
                                               dl.temp)
                      IN  IF env.fail_at = "oserror"
                          THEN ran(Raise("FileNotFoundError: hdiutil", <<>>), <<>>)
                          ELSE IF env.fail_at = "mount"
                          THEN ran(Ret(PyFalse, <<>>), <<attach>>)
                          ELSE IF env.fail_at = "cp"
                          THEN ran(Ret(PyFalse, <<>>), <<attach, cp>>)
                          ELSE IF env.fail_at = "ln"
                          THEN ran(Ret(PyFalse, <<>>), <<attach, cp, ln>>)
                          ELSE IF env.fail_at = "detach"
                          THEN ran(Ret(PyFalse, <<>>), <<attach, cp, ln, detach>>)
                          ELSE ran(Ret(Str(julia_bin), <<>>), <<attach, cp, ln, detach>>)

install_julia(env) ==
    IF env.system = "Windows" THEN install_julia_windows(env)
    ELSE IF env.system = "Linux" THEN install_julia_linux(env)
    ELSE IF env.system = "Darwin" THEN install_julia_macos(env)
    ELSE Ret(PyFalse, <<>>)

essential_packages == <<"WAV", "FFTW", "DSP", "JSON">>

\* (mutant) the package loop removes the package
PkgAddCmd_rm(julia_path, package) == <<julia_path, "-e", "using Pkg; Pkg.rm", package>>

\* cmd of the package loop: [julia_path, "-e", f'using Pkg; Pkg.add("{package}")']
PkgAddCmd(julia_path, package) == <<julia_path, "-e", "using Pkg; Pkg.add", package>>

\* [julia_path, setup_script]
SetupScriptCmd(julia_path) == <<julia_path, "src/setup.jl">>

\* progress_value of the package loop, 0.2 + (i / len(essential_packages) * 0.3)
\* for the 0-based i of enumerate, in thousandths
progress_value(i) == 200 + (i * 300) \div Len(essential_packages)

\* the package loop: one subprocess.run per package.  A non-zero exit is
\* reported with fraction 0 and the loop goes on; an exception raised by
\* subprocess.run leaves the loop (raised), to the except clause of the body.
RECURSIVE install_essential(_, _, _)
install_essential(julia_path, env, i) ==
    LET cmd == PkgAddCmd(julia_path, essential_packages[i])
        rest == install_essential(julia_path, env, i + 1)
        here == <<progress_value(i - 1)>>
    IN  IF i > Len(essential_packages)
        THEN [calls |-> <<>>, reports |-> <<>>, exited0 |-> <<>>, raised |-> FALSE]
        ELSE IF env.pkg_fail = i /\ env.pkg_raises
        THEN [calls |-> <<cmd>>, reports |-> here, exited0 |-> <<>>,
              raised |-> TRUE]
        ELSE IF env.pkg_fail = i
        THEN [rest EXCEPT !.calls = <<cmd>> \o @,
                          !.reports = here \o <<0>> \o @]
        ELSE [rest EXCEPT !.calls = <<cmd>> \o @,
                          !.reports = here \o @,
                          !.exited0 = <<cmd>> \o @]

\* the outcome r of the bootstrapper with its progress reports and the
\* commands that exited 0
Reported(r, reports, exited0) ==
    [r EXCEPT !.reports = reports, !.exited0 = exited0]

\* (mutant) a missing setup script is skipped instead of being fatal
setup_julia_packages_lenient(julia_path, env) ==
    LET p1 == install_essential(julia_path.v, env, 1)
        script == SetupScriptCmd(julia_path.v)
        head == <<100, 200>> \o p1.reports
    IN  IF ~IsStr(julia_path)
        THEN Reported(Ret(PyFalse, <<>>), <<100, 200, 200, 0>>, <<>>)
        ELSE IF p1.raised
        THEN Reported(Ret(PyFalse, p1.calls), head \o <<0>>, p1.exited0)
        ELSE IF ~env.script_exists
        THEN Reported(Ret(PyTrue, p1.calls), head \o <<500, 1000>>, p1.exited0)
        ELSE IF ~env.script_ok
        THEN Reported(Ret(PyFalse, Append(p1.calls, script)),
                      head \o <<500, 600, 0>>, p1.exited0)
        ELSE Reported(Ret(PyTrue, Append(p1.calls, script)),
                      head \o <<500, 600, 1000>>, Append(p1.exited0, script))

\* setup_julia_packages: the whole body is inside try/except Exception, so a
\* julia_path that subprocess.run cannot take as argv[0] (a bool) is a caught
\* TypeError at the first package install, and any exception of a package
\* install ends the run with False.
setup_julia_packages(julia_path, env) ==
    LET p1 == install_essential(julia_path.v, env, 1)
        script == SetupScriptCmd(julia_path.v)
        head == <<100, 200>> \o p1.reports
    IN  IF ~IsStr(julia_path)
        THEN Reported(Ret(PyFalse, <<>>), <<100, 200, 200, 0>>, <<>>)
        ELSE IF p1.raised
        THEN Reported(Ret(PyFalse, p1.calls), head \o <<0>>, p1.exited0)
        ELSE IF ~env.script_exists
        THEN Reported(Ret(PyFalse, p1.calls), head \o <<500, 0>>, p1.exited0)
        ELSE IF ~env.script_ok
        THEN Reported(Ret(PyFalse, Append(p1.calls, script)),
                      head \o <<500, 600, 0>>, p1.exited0)
        ELSE Reported(Ret(PyTrue, Append(p1.calls, script)),
                      head \o <<500, 600, 1000>>, Append(p1.exited0, script))

setup_pyjulia(julia_path, env) ==
    IF env.pyjulia_ok THEN Ret(PyTrue, <<>>) ELSE Ret(PyFalse, <<>>)

\* the outcome r of ensure_julia_installation with the steps it called
Did(r, steps) == [r EXCEPT !.did = steps]

ensure_julia_installation(env) ==
    LET chk == check_julia_installation(env)
        ins == IF Truthy(chk.val) THEN Ret(chk.val, <<>>) ELSE install_julia(env)
        c1 == chk.calls \o ins.calls
        s1 == IF Truthy(chk.val) THEN <<"check">> ELSE <<"check", "install">>
    IN  IF ins.exc # "" THEN Did(Left(Raise(ins.exc, c1), ins.temp), s1)
        ELSE IF ~Truthy(ins.val) THEN Did(Left(Ret(PyNone, c1), ins.temp), s1)
        ELSE LET pk == setup_julia_packages(ins.val, env)
                 c2 == c1 \o pk.calls
                 s2 == Append(s1, "packages")
                 s3 == Append(s2, "pyjulia")
                 pj == setup_pyjulia(ins.val, env)
             IN  IF ~Truthy(pk.val) THEN Did(Left(Ret(PyNone, c2), ins.temp), s2)
                 ELSE IF ~Truthy(pj.val)
                 THEN Did(Left(Ret(PyNone, c2), ins.temp), s3)
                 ELSE Did(Left(Ret(ins.val, c2), ins.temp), s3)

\* the gr.Progress() object a UI handler gets as its argument
GrProgress == [t |-> "Progress", v |-> "gr.Progress()"]

\* app.py, setup_julia_packages_handler(progress): it calls
\* setup_julia_packages(progress), so the progress object is the julia_path;
\* the message it returns tells whether the call returned a true value
setup_julia_packages_handler(progress, env) ==
    LET success == setup_julia_packages(progress, env)
    IN  IF Truthy(success.val)
        THEN Ret(Str("Julia packages set up successfully!"), success.calls)
        ELSE Ret(Str("Failed to set up Julia packages. Please check the console for more information."),
                 success.calls)

\* ------------------------------------------------------------ hosts
Systems == {"Windows", "Linux", "Darwin", "FreeBSD"}

Machines == {"AMD64", "x86", "x86_64", "aarch64", "arm64", "armv7l"}

Probes == {PyNone, Str("julia")}

FailSteps == {"none", "download", "run", "oserror", "extract", "nodir",
              "symlink", "profile", "mount", "cp", "ln", "detach"}

\* a package install fails on hosts where nothing else does
Hosts ==
    {h \in [system : Systems, machine : Machines, probe : Probes,
            fail_at : FailSteps, progress_raises : BOOLEAN,
            script_exists : BOOLEAN, script_ok : BOOLEAN, pyjulia_ok : BOOLEAN,
            pkg_fail : 0..Len(essential_packages), pkg_raises : BOOLEAN] :
        /\ h.pkg_fail = 0 => ~h.pkg_raises
        /\ h.pkg_fail > 0 => h.fail_at = "none"}

\* ============================================================ app.py: names
\* os.path.basename of a path
basename(path) == path[Len(path)]

\* os.path.splitext(name)[0]: the name up to its last dot, unless that dot is
\* one of the leading dots of the name (then the name has no extension).
splitext0(name) ==
    LET dots == {i \in 1..Len(name) : name[i] = "."}
        dotIndex == IF dots = {} THEN 0
                    ELSE CHOOSE i \in dots : \A k \in dots : k <= i
    IN  IF dotIndex > 0 /\ \E i \in 1..(dotIndex - 1) : name[i] # "."
        THEN SubSeq(name, 1, dotIndex - 1)
        ELSE name

\* str.endswith
EndsWith(name, suffix) ==
    /\ Len(suffix) <= Len(name)
    /\ SubSeq(name, Len(name) - Len(suffix) + 1, Len(name)) = suffix

\* the archive member name of a file of the walk: zipf.write(file_path,
\* os.path.join(os.path.basename(root), file)), where root is the directory
\* os.walk is visiting: generated_folder itself, or a directory below it.
\* rel is the file's path relative to generated_folder.
ArcName(generated_folder, rel) ==
    LET root == <<generated_folder>> \o SubSeq(rel, 1, Len(rel) - 1)
    IN  <<basename(root), rel[Len(rel)]>>

\* the members written by the walk over a directory holding `files`
ZipEntries(generated_folder, files) ==
    {[name |-> ArcName(generated_folder, rel), file |-> rel] : rel \in files}

\* ------------------------------------------------------------ diagnostics
\* `needle in text` for the raw texts of the model
Has(text, needle) ==
    CASE text = "ERROR: ArgumentError: Package WAV not found in current path"
            -> needle \in {"WAV", "not found"}
      [] text = "WAV not found; [Parsed_adelay_0] Option not found"
            -> needle \in {"WAV", "not found", "adelay"}
      [] text = "ffmpeg: no such file or directory"
            -> needle \in {"ffmpeg", "no such file or directory"}
      [] text = "[Parsed_adelay_0] Invalid argument"
            -> needle \in {"adelay"}
      [] OTHER -> FALSE

\* what the external process can print on stderr when it fails
StderrTexts == {"ERROR: ArgumentError: Package WAV not found in current path",
                "WAV not found; [Parsed_adelay_0] Option not found",
                "ffmpeg: no such file or directory",
                "[Parsed_adelay_0] Invalid argument",
                "ERROR: LoadError"}

\* a log line: the fixed text of the f-string and the raw text put into it
L(fmt) == [fmt |-> fmt, raw |-> ""]

LR(fmt, raw) == [fmt |-> fmt, raw |-> raw]

\* ============================================================ app.py: state
VARIABLES
    JULIA_PATH,     \* the module global: PyNone or Str(path)
    FFMPEG_FOUND,   \* the module global set at import from FFMPEG_ADDED_TO_PATH
    job,            \* job[j]: the locals of the j-th call of process_audio_file
    issued,         \* how many uuid4 values have been drawn
    temp_uploads,   \* TEMP_DIR: file name -> the audio it is a copy of
    aux,            \* TEMP_DIR: <job id>_difficulties.txt / _config.txt -> lines
    cwd,            \* the generated folders in os.getcwd(): name -> directory
    output_maps,    \* OUTPUT_DIR: job id -> [log, zips]
    handler,        \* install_julia_handler: "idle" or "running"
    world,          \* the inputs and faults the environment can produce
    host,           \* the host an installer run is applied to
    inst,           \* the record the installer run produced
    boot            \* the start-up of the module: the process image, os.environ

vars == <<JULIA_PATH, FFMPEG_FOUND, job, issued, temp_uploads, aux, cwd,
          output_maps, handler, world, host, inst, boot>>

\* ------------------------------------------------------------ bounds, inputs
\* how many calls of process_audio_file are followed
NumJobs == 2

Jobs == 1..NumJobs

\* (mutant) every call draws the same value
UUID_same(n) == "u1"

\* uuid.uuid4(): the n-th value drawn; values do not repeat
UUID(n) == <<"u1", "u2", "u3", "u4", "u5", "u6">>[n]

\* the audio references a caller can submit: <<directory, file name>>; two
\* uploads of "a.w" from different places, and "b_a.w"
AudioRefs == {<< <<"up1">>, <<"a", ".", "w">> >>,
              << <<"up2">>, <<"a", ".", "w">> >>,
              << <<"up3">>, <<"b", "_", "a", ".", "w">> >>}

\* names that exercise splitext: two dots, a leading dot, no dot
OddRefs == {<< <<"up1">>, <<"a", ".", "b", ".", "w">> >>,
            << <<"up1">>, <<".", "w">> >>,
            << <<"up1">>, <<"a">> >>}

\* audio_file is None
NoAudio == <<>>

\* sep.join(list): the items as tokens with the separator between them
RECURSIVE Join(_, _)
Join(list, sep) ==
    IF list = <<>> THEN <<>>
    ELSE IF Len(list) = 1 THEN <<list[1]>>
    ELSE <<list[1], sep>> \o Join(Tail(list), sep)

\* the five checkboxes of the form: <<easy, normal, hard, expert, expert_plus>>
Selections == [1..5 -> BOOLEAN]

\* (mutant) nothing selected is passed on as nothing
process_audio_with_difficulties_empty(c) ==
    LET pick(i, name) == IF c[i] THEN <<name>> ELSE <<>>
    IN  Join(pick(1, "Easy") \o pick(2, "Normal") \o pick(3, "Hard")
             \o pick(4, "Expert") \o pick(5, "ExpertPlus"), "\n")

\* difficulties_arg as process_audio_with_difficulties builds it from the
\* checkboxes c: the selected values, all five when none is selected, joined
\* by newlines
process_audio_with_difficulties(c) ==
    LET pick(i, name) == IF c[i] THEN <<name>> ELSE <<>>
        selected == pick(1, "Easy") \o pick(2, "Normal") \o pick(3, "Hard")
                    \o pick(4, "Expert") \o pick(5, "ExpertPlus")
        difficulties == IF selected = <<>>
                        THEN <<"Easy", "Normal", "Hard", "Expert", "ExpertPlus">>
                        ELSE selected
    IN  Join(difficulties, "\n")

\* the selections followed where the difficulties are not what is looked at:
\* Easy alone, and nothing
DifficultyArgs == {<<TRUE, FALSE, FALSE, FALSE, FALSE>>,
                   <<FALSE, FALSE, FALSE, FALSE, FALSE>>}

\* the opaque prefixes of the folder the external process creates
Prefixes == {<<"p">>, <<"q">>}

\* what the external process can put into its folder (paths relative to it)
Trees == {{<< <<"Info.dat">> >>},
          {<< <<"Info.dat">> >>, << <<"cover.jpg">> >>},
          {<< <<"Info.dat">> >>, << <<"sub">>, <<"Easy.dat">> >>},
          {<< <<"Info.dat">> >>, << <<"sub">>, <<"cover.jpg">> >>},
          {<< <<"x">>, <<"y">>, <<"f.dat">> >>, << <<"z">>, <<"y">>, <<"f.dat">> >>}}

StdoutTexts == {"", "Mapping song"}

\* where the media tool is on the host, with the file names the program uses
\* on Windows: `flag` is the environment variable FFMPEG_ADDED_TO_PATH the
\* launcher sets after putting the tool on PATH, `path` the tool in a PATH
\* directory, `cwdexe` ./ffmpeg.exe, `dir` ./ffmpeg, `exe` ./ffmpeg/ffmpeg.exe,
\* `bin` ./ffmpeg/bin, `binexe` ./ffmpeg/bin/ffmpeg.exe, `common` the tool in
\* one of the well-known locations
FfmpegLayouts ==
    {l \in [flag : BOOLEAN, path : BOOLEAN, cwdexe : BOOLEAN, common : BOOLEAN,
            dir : BOOLEAN, exe : BOOLEAN, bin : BOOLEAN, binexe : BOOLEAN] :
        /\ l.flag => l.path
        /\ l.exe => l.dir
        /\ l.bin => l.dir
        /\ l.binexe => l.bin}

\* check_command("ffmpeg", "ffmpeg"): the PATH directories, the working
\* directory, ./ffmpeg, the well-known locations, then `ffmpeg --version`
check_command(l) ==
    \/ l.path
    \/ l.cwdexe
    \/ l.exe
    \/ l.common
    \/ l.path

\* what ensure_julia_installation can produce on the hosts hs
EnsureOutcomes(hs) ==
    {[val |-> ensure_julia_installation(e).val,
      exc |-> ensure_julia_installation(e).exc] : e \in hs}

\* every fault the model can inject into a job
JobFaults == {"none", "makedirs", "copy", "copy_partial", "log", "difficulties",
              "config", "popen", "cover", "zip_open", "zip_write", "rmtree"}

\* what the external process can print when it fails: stderr and stdout
Diagnostics == [err : StderrTexts, out : StdoutTexts]

\* A world fixes what the environment of the jobs can do: how many calls of
\* process_audio_file are followed, the inputs callers pass, the faults that
\* can happen, what the external process prints and creates, what is below
\* ./ffmpeg, and what ensure_julia_installation can produce.
\* `probe` is what get_julia_path finds on the host the program runs on.
\* One job at a time, every input and every fault:
SoloWorld(p, m) ==
    [jobs |-> 1, refs |-> AudioRefs \cup OddRefs, args |-> DifficultyArgs,
     faults |-> JobFaults, texts |-> Diagnostics, trees |-> Trees,
     media |-> m, probe |-> p,
     ensure |-> EnsureOutcomes({h \in Hosts : h.probe = p})]

\* no media tool on the host
NoFfmpegAnywhere ==
    [flag |-> FALSE, path |-> FALSE, cwdexe |-> FALSE, common |-> FALSE,
     dir |-> FALSE, exe |-> FALSE, bin |-> FALSE, binexe |-> FALSE]

\* the places a layout has the media tool in
Places(l) ==
    {pl \in {"path", "cwdexe", "common", "exe", "binexe"} :
        \/ pl = "path" /\ l.path
        \/ pl = "cwdexe" /\ l.cwdexe
        \/ pl = "common" /\ l.common
        \/ pl = "exe" /\ l.exe
        \/ pl = "binexe" /\ l.binexe}

\* the tool nowhere, in one place, or in both places below ./ffmpeg; ./ffmpeg
\* and ./ffmpeg/bin exist without the tool only when it is nowhere
SoloLayouts ==
    {l \in FfmpegLayouts :
        /\ Cardinality(Places(l)) <= 1 \/ Places(l) = {"exe", "binexe"}
        /\ Places(l) # {} => (l.dir = (l.exe \/ l.binexe) /\ l.bin = l.binexe)}

\* the tool nowhere, or put on PATH by the launcher
ConcurrentLayouts ==
    {l \in FfmpegLayouts : l.flag = l.path /\ Places(l) \subseteq {"path"} /\ ~l.dir}

\* Concurrent jobs on a Linux x86_64 host:
ConcurrentWorld(p, m) ==
    [jobs |-> NumJobs, refs |-> AudioRefs,
     args |-> {<<TRUE, FALSE, FALSE, FALSE, FALSE>>},
     faults |-> JobFaults,
     texts |-> {[err |-> "ERROR: LoadError", out |-> ""],
                [err |-> "[Parsed_adelay_0] Invalid argument", out |-> "Mapping song"]},
     trees |-> {{<< <<"Info.dat">> >>},
                {<< <<"Info.dat">> >>, << <<"cover.jpg">> >>}},
     media |-> m,
     probe |-> p,
     ensure |-> EnsureOutcomes({h \in Hosts : /\ h.probe = p
                                              /\ h.system = "Linux"
                                              /\ h.machine = "x86_64"
                                              /\ ~h.progress_raises})]

\* ------------------------------------------------------------ results
Pending == [kind |-> "pending", msg |-> <<>>, path |-> <<>>]

\* (mutant) a submission without audio is answered with an error message
RetNone_message ==
    [kind |-> "update", msg |-> <<"Please upload an audio file">>, path |-> <<>>]

\* return None
RetNone == [kind |-> "None", msg |-> <<>>, path |-> <<>>]

\* return gr.update(value=<msg>, visible=True)
RetUpdate(msg) == [kind |-> "update", msg |-> msg, path |-> <<>>]

\* return "<msg>"
RetStr(msg) == [kind |-> "str", msg |-> msg, path |-> <<>>]

\* return zip_path
RetPath(path) == [kind |-> "path", msg |-> <<>>, path |-> path]

\* an exception leaves process_audio_file
Raised(text) == [kind |-> "raised", msg |-> <<text>>, path |-> <<>>]

OUTPUT_DIR == <<"output_maps">>

TEMP_DIR == <<"temp_uploads">>

\* os.path.basename(log_file)
log_basename == "process_log.txt"

\* the value of the two generic error returns (lines 267-270 and 321-324)
SeeLog == RetUpdate(<<"Error processing file. See log file for details: ",
                      log_basename>>)

\* (mutant) the raw stderr text is put into the returned value
ProcessErrorReturn_raw(error_msg) ==
    RetUpdate(<<"Error processing file: ", error_msg>>)

\* lines 267-270: the return after a non-zero exit with stderr error_msg
ProcessErrorReturn(error_msg) == SeeLog

\* lines 321-324: the return of the except clause for exception text e
ExceptReturn(e) == SeeLog

\* the value returned when no generated folder is found (lines 282-285)
NoFolder ==
    RetUpdate(<<"Error: Could not find generated map folder. See log file for details: ",
                log_basename>>)

NoFfmpeg == RetStr(<<"Error: ffmpeg not found. Please install ffmpeg.">>)

NoJulia == RetUpdate(<<"Error: Failed to install Julia">>)

\* the locals of a call; `overlaps` and `steps` are history: the calls that
\* were in progress when this one began, and the filesystem and process steps
\* this call has completed, in order
IdleJob == [pc |-> "idle", audio |-> NoAudio, selected |-> <<>>,
            difficulties_arg |-> <<>>, cmd |-> <<>>,
            job_id |-> "", rc |-> 0, err |-> "", out |-> "",
            generated_folders |-> {}, generated_folder |-> <<>>,
            result |-> Pending, overlaps |-> {}, steps |-> <<>>]

InFlight(j) == job[j].pc \notin {"idle", "done"}

NoHost == [system |-> "", machine |-> "", probe |-> PyNone, fail_at |-> "none",
           progress_raises |-> FALSE, script_exists |-> FALSE,
           script_ok |-> FALSE, pyjulia_ok |-> FALSE, pkg_fail |-> 0,
           pkg_raises |-> FALSE]

\* no run before this one
NoPrev == [val |-> PyNone, env |-> {}]

\* inst: the operation run (op) with its argument (arg), what it returned,
\* the packages in the Julia environment after it (env), and the return value
\* and environment of the run of the same operation before it (prev)
NoRun == [op |-> "", arg |-> PyNone, val |-> PyNone, exc |-> "", calls |-> <<>>,
          temp |-> {}, reports |-> <<>>, exited0 |-> <<>>, did |-> <<>>,
          env |-> {}, runs |-> 0, prev |-> NoPrev]

\* the start-up of a process that serves: the guard is set, the modules are
\* imported; `flag` is whether the launcher has set FFMPEG_ADDED_TO_PATH
Booted(flag) ==
    [pc |-> "serving", image |-> 0, installs |-> 0,
     environ |-> [BEATSABER_APP_STARTED |-> Str("1"),
                  FFMPEG_ADDED_TO_PATH |-> IF flag THEN Str("true") ELSE PyNone,
                  PATH |-> <<"/usr/bin">>],
     launch_guard |-> Str("1"), launch_path |-> <<"/usr/bin">>,
     pip_ok |-> TRUE, execv_ok |-> TRUE, importable |-> TRUE]

\* the state after the module is imported: check_and_setup_environment has
\* stored what check_julia_installation found; no job has been submitted
InitJobs(ws) ==
    /\ world \in ws
    /\ JULIA_PATH = check_julia_installation(world).val
    /\ FFMPEG_FOUND = world.media.flag
    /\ job = [j \in Jobs |-> IdleJob]
    /\ issued = 0
    /\ temp_uploads = EmptyMap
    /\ aux = EmptyMap
    /\ cwd = EmptyMap
    /\ output_maps = EmptyMap
    /\ handler = "idle"
    /\ boot = Booted(world.media.flag)

file_name(j) == basename(job[j].audio)

song_name(j) == splitext0(file_name(j))

\* log_message: append lines to this job's process_log.txt
LogTo(om, id, lines) == [om EXCEPT ![id].log = @ \o lines]

\* the finally clause: os.remove(temp_file_path) if it exists
Finally(tu, name) == IF name \in DOMAIN tu THEN Del(tu, name) ELSE tu

\* the step the finally clause performs for job j, if any
FinallyStep(j) ==
    IF file_name(j) \in DOMAIN temp_uploads THEN <<"remove_copy">> ELSE <<>>

\* the lines the except clause logs for an exception with text `text`
ExceptLines(text) ==
    <<LR("Unexpected error: ", text), L("Exception type: "),
      L("===== TRACEBACK ====="), LR("", text)>>

\* ============================================================ app.py: process_audio_file
\* One action per stretch of process_audio_file between two points where
\* another job or the install handler can run.  Faults are injected at the
\* I/O steps of the job: os.makedirs, shutil.copy, the log write that follows
\* the copy (line 188), the two open/write of the auxiliary files, Popen, generate_cover_image, the zip write, shutil.rmtree.

\* lines 144-150: the null check and the test of the shared runtime slot
Submit(j) ==
    /\ job[j].pc = "idle"
    /\ j <= world.jobs
    /\ j > 1 => job[j - 1].pc # "idle"
    /\ \E a \in world.refs \cup {NoAudio}, d \in world.args :
          job' = [job EXCEPT ![j] =
                    IF a = NoAudio
                    THEN [@ EXCEPT !.pc = "done", !.result = RetNone]
                    ELSE [@ EXCEPT !.audio = a, !.selected = d,
                                   !.difficulties_arg =
                                       process_audio_with_difficulties(d),
                                   !.overlaps = {k \in Jobs : InFlight(k)},
                                   !.pc = IF Truthy(JULIA_PATH) THEN "upload"
                                          ELSE "installing"]]
    /\ UNCHANGED <<boot, JULIA_PATH, FFMPEG_FOUND, issued, temp_uploads, aux, cwd,
                   output_maps, handler, world, host, inst>>

\* lines 151-153: ensure_julia_installation returns (or raises) and its value
\* is stored in the shared slot
EnsureReturn(j) ==
    /\ job[j].pc = "installing"
    /\ \E r \in world.ensure :
          IF r.exc # ""
          THEN /\ job' = [job EXCEPT ![j].pc = "done", ![j].result = Raised(r.exc)]
               /\ UNCHANGED JULIA_PATH
          ELSE /\ JULIA_PATH' = r.val
               /\ job' = [job EXCEPT ![j] =
                            IF Truthy(r.val)
                            THEN [@ EXCEPT !.pc = "upload"]
                            ELSE [@ EXCEPT !.pc = "done", !.result = NoJulia]]
    /\ UNCHANGED <<boot, FFMPEG_FOUND, issued, temp_uploads, aux, cwd, output_maps,
                   handler, world, host, inst>>

\* lines 155-188: job id, output folder, log file, processing copy
Upload(j) ==
    /\ job[j].pc = "upload"
    /\ issued' = issued + 1
    /\ LET job_id == UUID(issued + 1)
           started == [log |-> <<L("Starting job "), L("Processing song: ")>>,
                       zips |-> EmptyMap]
       IN  \E fault \in {"none", "makedirs", "copy", "copy_partial", "log"}
                            \cap world.faults :
             IF fault = "makedirs"
             THEN /\ job' = [job EXCEPT ![j].job_id = job_id, ![j].pc = "done",
                                ![j].result = Raised("OSError: makedirs")]
                  /\ UNCHANGED <<output_maps, temp_uploads>>
             ELSE IF fault = "copy"
             THEN /\ job' = [job EXCEPT ![j].job_id = job_id, ![j].pc = "done",
                                ![j].result = Raised("OSError: copy")]
                  /\ output_maps' = Put(output_maps, job_id, started)
                  /\ UNCHANGED temp_uploads
             ELSE IF fault = "copy_partial"
             THEN /\ job' = [job EXCEPT ![j].job_id = job_id, ![j].pc = "done",
                                ![j].result = Raised("OSError: copy")]
                  /\ output_maps' = Put(output_maps, job_id, started)
                  /\ temp_uploads' = Put(temp_uploads, file_name(j), job[j].audio)
             ELSE IF fault = "log"
             THEN /\ job' = [job EXCEPT ![j].job_id = job_id, ![j].pc = "done",
                                ![j].steps = @ \o <<"copy">>,
                                ![j].result = Raised("OSError: log")]
                  /\ output_maps' = Put(output_maps, job_id, started)
                  /\ temp_uploads' = Put(temp_uploads, file_name(j), job[j].audio)
             ELSE /\ job' = [job EXCEPT ![j].job_id = job_id, ![j].pc = "spawn",
                                ![j].steps = @ \o <<"copy">>]
                  /\ output_maps' =
                        Put(output_maps, job_id,
                            [started EXCEPT !.log =
                               Append(@, L("Audio file uploaded to temp directory"))])
                  /\ temp_uploads' = Put(temp_uploads, file_name(j), job[j].audio)
    /\ UNCHANGED <<boot, JULIA_PATH, FFMPEG_FOUND, aux, cwd, handler, world, host, inst>>

\* lines 199-217: the media tool path the job resolves
ffmpeg_path(found, l) ==
    IF found THEN Str("ffmpeg")
    ELSE IF l.dir /\ l.exe THEN Str("cwd/ffmpeg/ffmpeg.exe")
    ELSE IF l.dir /\ l.bin /\ l.binexe THEN Str("cwd/ffmpeg/bin/ffmpeg.exe")
    ELSE PyNone

\* the job fails inside the try block after completing the steps `did`:
\* except clause, then finally clause
Fail(j, om, text, did) ==
    /\ job' = [job EXCEPT ![j].pc = "done", ![j].result = ExceptReturn(text),
                          ![j].steps = @ \o did \o FinallyStep(j)]
    /\ output_maps' = LogTo(om, job[j].job_id, ExceptLines(text))
    /\ temp_uploads' = Finally(temp_uploads, file_name(j))

\* (mutant) one difficulties file for all jobs
difficulties_file_shared(j) == <<"", "_difficulties.txt">>

difficulties_file(j) == <<job[j].job_id, "_difficulties.txt">>

config_file(j) == <<job[j].job_id, "_config.txt">>

\* cmd = [JULIA_PATH, "src/mapsongs.jl", temp_file_path, difficulties_file,
\*        config_file], the three files in TEMP_DIR; job[j].cmd is the cmd of
\* the process Popen has started
Cmd(j) == <<JULIA_PATH, "src/mapsongs.jl", <<TEMP_DIR, file_name(j)>>,
            <<TEMP_DIR, difficulties_file(j)>>, <<TEMP_DIR, config_file(j)>> >>

\* lines 190-231: the auxiliary files, the media tool, the command, Popen
Spawn(j) ==
    /\ job[j].pc = "spawn"
    /\ \E fault \in {"none", "difficulties", "config", "popen"} \cap world.faults :
          LET fp == ffmpeg_path(FFMPEG_FOUND, world.media)
              aux1 == Put(aux, difficulties_file(j), job[j].difficulties_arg)
              aux2 == Put(aux1, config_file(j), <<"ffmpeg_path=", fp.v>>)
          IN  IF fault = "difficulties"
              THEN Fail(j, output_maps, "OSError: difficulties file", <<>>)
                   /\ UNCHANGED aux
              ELSE IF ~Truthy(fp)
              THEN /\ job' = [job EXCEPT ![j].pc = "done", ![j].result = NoFfmpeg,
                                     ![j].steps = @ \o <<"difficulties">>
                                                    \o FinallyStep(j)]
                   /\ temp_uploads' = Finally(temp_uploads, file_name(j))
                   /\ aux' = aux1
                   /\ UNCHANGED output_maps
              ELSE IF fault = "config"
              THEN Fail(j, output_maps, "OSError: config file", <<"difficulties">>)
                   /\ aux' = aux1
              ELSE IF ~IsStr(JULIA_PATH)
              THEN Fail(j, output_maps, "TypeError: sequence item 0: expected str instance",
                        <<"difficulties", "config">>)
                   /\ aux' = aux2
              ELSE IF fault = "popen"
              THEN Fail(j, LogTo(output_maps, job[j].job_id,
                                 <<L("Executing command: ")>>),
                        "FileNotFoundError: julia", <<"difficulties", "config">>)
                   /\ aux' = aux2
              ELSE /\ job' = [job EXCEPT ![j].pc = "running",
                                     ![j].cmd = Cmd(j),
                                     ![j].steps = @ \o <<"difficulties", "config", "spawn">>]
                   /\ output_maps' = LogTo(output_maps, job[j].job_id,
                                           <<L("Executing command: ")>>)
                   /\ aux' = aux2
                   /\ UNCHANGED temp_uploads
    /\ UNCHANGED <<boot, JULIA_PATH, FFMPEG_FOUND, issued, cwd, handler, world, host, inst>>

\* the external analysis process (src/mapsongs.jl, opaque): it reads the
\* processing copy it was given, may create a folder <prefix>_<song base name>
\* with a fresh prefix in the working directory, and exits.  Its boundary
\* contract is section 6 of the specification; what it does is a choice.
ProcessOutcomes(j) ==
    LET name == file_name(j)
        song == splitext0(name)
        fresh == {pre \in Prefixes : (pre \o <<"_">> \o song) \notin DOMAIN cwd}
        nothing == [make |-> FALSE, pre |-> <<>>, tree |-> {}]
        folders == {[make |-> TRUE, pre |-> pre, tree |-> t] :
                       pre \in fresh, t \in world.trees}
        failures == {[rc |-> 1, err |-> d.err, out |-> d.out] : d \in world.texts}
    IN  IF name \notin DOMAIN temp_uploads
        THEN {[exit |-> x, folder |-> nothing] : x \in failures}
        ELSE {[exit |-> x, folder |-> f] :
                 x \in failures \cup {[rc |-> 0, err |-> "", out |-> ""]},
                 f \in folders \cup {nothing}}

\* line 232: process.communicate() returns
ProcExit(j) ==
    /\ job[j].pc = "running"
    /\ \E o \in ProcessOutcomes(j) :
          /\ job' = [job EXCEPT ![j].pc = "exited", ![j].rc = o.exit.rc,
                                ![j].err = o.exit.err, ![j].out = o.exit.out,
                                ![j].steps = @ \o <<"exit">>]
          /\ cwd' = IF o.folder.make
                    THEN Put(cwd, o.folder.pre \o <<"_">> \o song_name(j),
                             [by |-> job[j].job_id,
                              src |-> temp_uploads[file_name(j)],
                              files |-> o.folder.tree])
                    ELSE cwd
    /\ UNCHANGED <<boot, JULIA_PATH, FFMPEG_FOUND, issued, temp_uploads, aux,
                   output_maps, handler, world, host, inst>>

\* lines 245-264: the troubleshooting hint chosen from stderr
Hint(error_msg) ==
    IF Has(error_msg, "no such file or directory") /\ Has(error_msg, "ffmpeg")
    THEN <<L("Possible FFmpeg issue detected:"), L("Current FFmpeg path: "),
           L("Checking for FFmpeg in common locations:")>>
    ELSE IF Has(error_msg, "adelay")
    THEN <<L("Possible issue with FFmpeg adelay filter")>>
    ELSE IF Has(error_msg, "WAV") /\ Has(error_msg, "not found")
    THEN <<L("Julia WAV package may be missing")>>
    ELSE <<>>

\* lines 236-246: what a non-zero exit writes to the log
ErrorLines(rc, error_msg, stdout_content) ==
    <<L("Error: Process returned non-zero exit code "),
      L("===== ERROR DETAILS ====="), LR("Error message: ", error_msg),
      L("===== STDOUT ====="), LR("", stdout_content),
      L("===== TROUBLESHOOTING =====")>> \o Hint(error_msg)

\* line 275: the folders of the working directory matching the convention
generated_folders(j) ==
    {f \in DOMAIN cwd : EndsWith(f, <<"_">> \o song_name(j))}

\* lines 234-287: classify the exit, then look for the generated folder.
\* os.listdir gives no order, so any match can be generated_folders[0]; the
\* list is kept as the set of its elements.
Discover(j) ==
    /\ job[j].pc = "exited"
    /\ LET id == job[j].job_id
       IN  IF job[j].rc # 0
           THEN /\ job' = [job EXCEPT ![j].pc = "done",
                              ![j].result = ProcessErrorReturn(job[j].err),
                              ![j].steps = @ \o FinallyStep(j)]
                /\ output_maps' =
                      LogTo(output_maps, id,
                            ErrorLines(job[j].rc, job[j].err, job[j].out))
                /\ temp_uploads' = Finally(temp_uploads, file_name(j))
           ELSE IF generated_folders(j) = {}
           THEN /\ job' = [job EXCEPT ![j].pc = "done", ![j].result = NoFolder,
                              ![j].steps = @ \o <<"discover">> \o FinallyStep(j)]
                /\ output_maps' =
                      LogTo(output_maps, id,
                            <<L("Error: Could not find generated map folder"),
                              L("Looking for folders ending with: _"),
                              L("Current directory: "),
                              L("Files in current directory: ")>>)
                /\ temp_uploads' = Finally(temp_uploads, file_name(j))
           ELSE /\ \E g \in generated_folders(j) :
                      job' = [job EXCEPT ![j].pc = "package",
                                ![j].generated_folders = generated_folders(j),
                                ![j].generated_folder = g,
                                ![j].steps = @ \o <<"discover">>]
                /\ UNCHANGED <<output_maps, temp_uploads>>
    /\ UNCHANGED <<boot, JULIA_PATH, FFMPEG_FOUND, issued, aux, cwd, handler, world, host, inst>>

cover_jpg == << <<"cover.jpg">> >>

\* (mutant) no image is saved
generate_cover_image_nothing(files) == files

\* generate_cover_image(cover_path, song_name): img.save(output_path) adds
\* cover.jpg to the files of the folder
generate_cover_image(files) == files \cup {cover_jpg}

\* (mutant) the archive is named from the file name, extension included
zip_name_with_ext(j) == file_name(j) \o <<"_beatsaber_maps.zip">>

\* line 297: f"{song_name}_beatsaber_maps.zip"
zip_name(j) == song_name(j) \o <<"_beatsaber_maps.zip">>

zip_path(j) == <<OUTPUT_DIR, <<job[j].job_id>>, zip_name(j)>>

\* (mutant) the archive is never completely written
Zip_unfinished(entries, root, d, complete) ==
    [entries |-> entries, root |-> root, by |-> d.by, src |-> d.src,
     complete |-> FALSE]

\* a zip file: its members (name in the archive, file it was read from), the
\* job whose process made the folder and the audio that folder was made from
Zip(entries, root, d, complete) ==
    [entries |-> entries, root |-> root, by |-> d.by, src |-> d.src,
     complete |-> complete]

\* (mutant) the generated folder is left in place
RemoveTree_skipped(dirs, g) == dirs

\* shutil.rmtree(generated_folder) on the success path (line 305)
RemoveTree(dirs, g) == Del(dirs, g)

\* lines 289-308 and 325-328: cover, archive, removal of the generated
\* folder, return, removal of the processing copy
Package(j) ==
    /\ job[j].pc = "package"
    /\ LET g == job[j].generated_folder
           id == job[j].job_id
           present == g \in DOMAIN cwd
           has_cover == present /\ cover_jpg \in cwd[g].files
       IN  \E fault \in {"none", "cover", "zip_open", "zip_write", "rmtree"}
                            \cap world.faults :
             IF ~has_cover /\ (fault = "cover" \/ ~present)
             THEN Fail(j, output_maps, "OSError: cover", <<>>) /\ UNCHANGED cwd
             ELSE LET files == IF has_cover THEN cwd[g].files
                               ELSE generate_cover_image(cwd[g].files)
                      cover == IF has_cover THEN <<>> ELSE <<"cover">>
                      cwd1 == [cwd EXCEPT ![g].files = files]
                      full == Zip(ZipEntries(g, files), g, cwd[g], TRUE)
                      part == Zip({}, g, cwd[g], FALSE)
                      with(z) == [output_maps EXCEPT ![id].zips = Put(@, zip_name(j), z)]
                  IN  IF fault = "zip_open"
                      THEN Fail(j, output_maps, "OSError: zip", cover) /\ cwd' = cwd1
                      ELSE IF fault = "zip_write"
                      THEN Fail(j, with(part), "OSError: zip", cover) /\ cwd' = cwd1
                      ELSE IF fault = "rmtree"
                      THEN Fail(j, with(full), "OSError: rmtree", cover \o <<"zip">>)
                           /\ cwd' = cwd1
                      ELSE /\ cwd' = RemoveTree(cwd1, g)
                           /\ output_maps' = with(full)
                           /\ job' = [job EXCEPT ![j].pc = "done",
                                         ![j].result = RetPath(zip_path(j)),
                                         ![j].steps = @ \o cover \o <<"zip", "rmtree">>
                                                        \o FinallyStep(j)]
                           /\ temp_uploads' = Finally(temp_uploads, file_name(j))
    /\ UNCHANGED <<boot, JULIA_PATH, FFMPEG_FOUND, issued, aux, handler, world, host, inst>>

\* ============================================================ app.py: install_julia_handler
\* line 343: the handler calls ensure_julia_installation
HandlerClick ==
    /\ handler = "idle"
    /\ handler' = "running"
    /\ UNCHANGED <<boot, JULIA_PATH, FFMPEG_FOUND, job, issued, temp_uploads, aux,
                   cwd, output_maps, world, host, inst>>

\* lines 345-353: the slot is written only with a truthy path
HandlerReturn ==
    /\ handler = "running"
    /\ handler' = "idle"
    /\ \E r \in world.ensure :
          JULIA_PATH' = IF r.exc = "" /\ Truthy(r.val) THEN r.val ELSE JULIA_PATH
    /\ UNCHANGED <<boot, FFMPEG_FOUND, job, issued, temp_uploads, aux, cwd,
                   output_maps, world, host, inst>>

Next ==
    \/ \E j \in Jobs : Submit(j)
    \/ \E j \in Jobs : EnsureReturn(j)
    \/ \E j \in Jobs : Upload(j)
    \/ \E j \in Jobs : Spawn(j)
    \/ \E j \in Jobs : ProcExit(j)
    \/ \E j \in Jobs : Discover(j)
    \/ \E j \in Jobs : Package(j)
    \/ HandlerClick
    \/ HandlerReturn

\* concurrent jobs
Init ==
    /\ InitJobs({ConcurrentWorld(p, m) : p \in Probes, m \in ConcurrentLayouts})
    /\ host = NoHost
    /\ inst = NoRun

Spec == Init /\ [][Next]_vars

\* one job, every input and fault
InitSolo ==
    /\ InitJobs({SoloWorld(p, m) : p \in Probes, m \in SoloLayouts})
    /\ host = NoHost
    /\ inst = NoRun

SpecSolo == InitSolo /\ [][Next]_vars

\* no job is followed
NoWorld == [jobs |-> 0, refs |-> {}, args |-> {}, faults |-> {}, texts |-> {},
            trees |-> {}, media |-> NoFfmpegAnywhere, probe |-> PyNone,
            ensure |-> {}]

\* ------------------------------------------------------------ module start-up
\* app.py lines 11-56, run by every process image of the application.  boot is
\* [pc, image, installs, environ, launch_guard, launch_path, pip_ok, execv_ok,
\*  importable]:
\* image counts the os.execv calls that replaced the image, installs the runs
\* of install_missing_packages, environ is os.environ (inherited by the image
\* os.execv starts), launch_guard the guard value the first image was
\* launched with, launch_path its PATH (a sequence of directories); pip_ok,
\* execv_ok and importable are what the host does.

\* how many times the image may be replaced
MaxExecs == 3

\* what a caller can have in the two environment variables
GuardValues == {PyNone, Str("1"), Str("0")}

FlagValues == {PyNone, Str("true"), Str("false")}

Launches ==
    {[pc |-> "start", image |-> 0, installs |-> 0,
      environ |-> [BEATSABER_APP_STARTED |-> g, FFMPEG_ADDED_TO_PATH |-> f,
                   PATH |-> <<"/usr/bin">>],
      launch_guard |-> g, launch_path |-> <<"/usr/bin">>, pip_ok |-> p, execv_ok |-> x, importable |-> m] :
        g \in GuardValues, f \in FlagValues, p \in BOOLEAN, x \in BOOLEAN,
        m \in BOOLEAN}

\* (mutant) the guard is not set
SetGuard_forgotten(environ) == environ

\* os.environ['BEATSABER_APP_STARTED'] = '1'
SetGuard(environ) == [environ EXCEPT !.BEATSABER_APP_STARTED = Str("1")]

InitStartup ==
    /\ boot \in Launches
    /\ world = NoWorld
    /\ JULIA_PATH = PyNone
    /\ FFMPEG_FOUND = FALSE
    /\ job = [j \in Jobs |-> IdleJob]
    /\ issued = 0
    /\ temp_uploads = EmptyMap
    /\ aux = EmptyMap
    /\ cwd = EmptyMap
    /\ output_maps = EmptyMap
    /\ handler = "idle"
    /\ host = NoHost
    /\ inst = NoRun

\* lines 11-16: FFMPEG_FOUND from FFMPEG_ADDED_TO_PATH
ModuleStart ==
    /\ boot.pc = "start"
    /\ FFMPEG_FOUND' = (boot.environ.FFMPEG_ADDED_TO_PATH = Str("true"))
    /\ boot' = [boot EXCEPT !.pc = "guard"]
    /\ UNCHANGED <<JULIA_PATH, job, issued, temp_uploads, aux, cwd, output_maps,
                   handler, world, host, inst>>

\* lines 39-40: the guard is tested, and set when it is not '1'
GuardCheck ==
    /\ boot.pc = "guard"
    /\ boot' = IF boot.environ.BEATSABER_APP_STARTED # Str("1")
               THEN [boot EXCEPT !.environ = SetGuard(@), !.pc = "install"]
               ELSE [boot EXCEPT !.pc = "import"]
    /\ UNCHANGED <<JULIA_PATH, FFMPEG_FOUND, job, issued, temp_uploads, aux, cwd,
                   output_maps, handler, world, host, inst>>

\* line 41, install_missing_packages: pip install -r requirements.txt; True
\* when it exits 0, False on any exception
InstallMissingPackages ==
    /\ boot.pc = "install"
    /\ boot' = [boot EXCEPT !.installs = @ + 1,
                            !.pc = IF boot.pip_ok THEN "execv" ELSE "import"]
    /\ UNCHANGED <<JULIA_PATH, FFMPEG_FOUND, job, issued, temp_uploads, aux, cwd,
                   output_maps, handler, world, host, inst>>

\* line 43, os.execv(sys.executable, [sys.executable] + sys.argv): the image
\* is replaced by a new one that starts the module again with the environment
\* of this one, or os.execv raises OSError and the process ends
Execv ==
    /\ boot.pc = "execv"
    /\ boot.image < MaxExecs
    /\ IF boot.execv_ok
       THEN /\ boot' = [boot EXCEPT !.image = @ + 1, !.pc = "start"]
            /\ FFMPEG_FOUND' = FALSE
       ELSE /\ boot' = [boot EXCEPT !.pc = "crashed"]
            /\ UNCHANGED FFMPEG_FOUND
    /\ UNCHANGED <<JULIA_PATH, job, issued, temp_uploads, aux, cwd, output_maps,
                   handler, world, host, inst>>

\* lines 46-56: the imports; sys.exit(1) on ImportError
ImportModules ==
    /\ boot.pc = "import"
    /\ boot' = [boot EXCEPT !.pc = IF boot.importable THEN "serving" ELSE "exited"]
    /\ UNCHANGED <<JULIA_PATH, FFMPEG_FOUND, job, issued, temp_uploads, aux, cwd,
                   output_maps, handler, world, host, inst>>

NextStartup ==
    ModuleStart \/ GuardCheck \/ InstallMissingPackages \/ Execv \/ ImportModules

SpecStartup == InitStartup /\ [][NextStartup]_vars

\* one job of one upload, every selection of the form, no fault
FormWorld(p) ==
    [jobs |-> 1, refs |-> {<< <<"up1">>, <<"a", ".", "w">> >>},
     args |-> Selections, faults |-> {"none"},
     texts |-> {[err |-> "ERROR: LoadError", out |-> ""]},
     trees |-> {{<< <<"Info.dat">> >>}},
     media |-> [NoFfmpegAnywhere EXCEPT !.flag = TRUE, !.path = TRUE],
     probe |-> p,
     ensure |-> EnsureOutcomes({h \in Hosts : /\ h.probe = p
                                              /\ h.system = "Linux"
                                              /\ h.machine = "x86_64"
                                              /\ ~h.progress_raises})]

InitForm ==
    /\ InitJobs({FormWorld(p) : p \in Probes})
    /\ host = NoHost
    /\ inst = NoRun

SpecForm == InitForm /\ [][Next]_vars

\* ============================================================ julia_setup.py on a host
\* The installer operators applied to every host.
InitInstall ==
    /\ InitJobs({NoWorld})
    /\ host \in Hosts
    /\ inst = NoRun

\* what the setup script src/setup.jl installs
SetupPackages == {"WAV", "FFTW", "DSP", "JSON", "the packages of setup.jl"}

\* the Julia environment after a command that exited 0: Pkg.add adds the
\* package, the setup script adds what is missing of SetupPackages; any other
\* -e command on a package is its removal
JuliaEffect(installed, cmd) ==
    IF cmd[2] = "-e" /\ cmd[3] = "using Pkg; Pkg.add" THEN installed \cup {cmd[4]}
    ELSE IF cmd[2] = "-e" THEN installed \ {cmd[4]}
    ELSE installed \cup SetupPackages

RECURSIVE JuliaEnv(_, _)
JuliaEnv(installed, cmds) ==
    IF cmds = <<>> THEN installed
    ELSE JuliaEnv(JuliaEffect(installed, Head(cmds)), Tail(cmds))

Run(op, r) ==
    [op |-> op, arg |-> PyNone, val |-> r.val, exc |-> r.exc, calls |-> r.calls,
     temp |-> r.temp, reports |-> r.reports, exited0 |-> r.exited0,
     did |-> r.did, env |-> JuliaEnv({}, r.exited0), runs |-> 1, prev |-> NoPrev]

\* the values callers pass as julia_path: a path, or the True the Windows
\* installer returns
SetupArgs == {Str("julia"), PyTrue}

CallInstall ==
    /\ inst = NoRun
    /\ inst' = Run("install_julia", install_julia(host))
    /\ UNCHANGED <<boot, JULIA_PATH, FFMPEG_FOUND, job, issued, temp_uploads, aux,
                   cwd, output_maps, handler, world, host>>

CallEnsure ==
    /\ inst = NoRun
    /\ inst' = Run("ensure_julia_installation", ensure_julia_installation(host))
    /\ UNCHANGED <<boot, JULIA_PATH, FFMPEG_FOUND, job, issued, temp_uploads, aux,
                   cwd, output_maps, handler, world, host>>

\* setup_julia_packages(julia_path) on a fresh Julia environment
CallSetup ==
    /\ inst = NoRun
    /\ \E a \in SetupArgs :
          inst' = [Run("setup_julia_packages", setup_julia_packages(a, host))
                       EXCEPT !.arg = a]
    /\ UNCHANGED <<boot, JULIA_PATH, FFMPEG_FOUND, job, issued, temp_uploads, aux,
                   cwd, output_maps, handler, world, host>>

\* setup_julia_packages(julia_path) again, on the environment the first run left
CallSetupAgain ==
    /\ inst.op = "setup_julia_packages"
    /\ inst.runs = 1
    /\ LET r == setup_julia_packages(inst.arg, host)
       IN  inst' = [Run("setup_julia_packages", r) EXCEPT
                       !.arg = inst.arg,
                       !.env = JuliaEnv(inst.env, r.exited0),
                       !.runs = 2,
                       !.prev = [val |-> inst.val, env |-> inst.env]]
    /\ UNCHANGED <<boot, JULIA_PATH, FFMPEG_FOUND, job, issued, temp_uploads, aux,
                   cwd, output_maps, handler, world, host>>

\* download_file(url, target_path) called on its own
CallDownload ==
    /\ inst = NoRun
    /\ inst' = [Run("download_file",
                    download_file(JULIA_URLS("Linux", "x64"), "tmp/target", host))
                    EXCEPT !.arg = Str("tmp/target")]
    /\ UNCHANGED <<boot, JULIA_PATH, FFMPEG_FOUND, job, issued, temp_uploads, aux,
                   cwd, output_maps, handler, world, host>>

\* a click on the package-setup button; inst.arg is the julia_path the
\* bootstrapper was given
CallSetupHandler ==
    /\ inst = NoRun
    /\ inst' = [Run("setup_julia_packages_handler",
                    setup_julia_packages_handler(GrProgress, host))
                    EXCEPT !.arg = GrProgress]
    /\ UNCHANGED <<boot, JULIA_PATH, FFMPEG_FOUND, job, issued, temp_uploads, aux,
                   cwd, output_maps, handler, world, host>>

NextInstall ==
    \/ CallInstall
    \/ CallEnsure
    \/ CallSetup
    \/ CallSetupAgain
    \/ CallDownload
    \/ CallSetupHandler

SpecInstall == InitInstall /\ [][NextInstall]_vars

\* ------------------------------------------------------------ media tool probe
\* check_command of app.py and setup.py (the same code), install_ffmpeg and
\* main of setup.py, on os.environ['PATH'] (boot.environ.PATH) and the layout
\* of the host (world.media).  The working directory is the application
\* directory.  A probe operator returns [val, exc, path, media, did]: the
\* return value, the exception that propagates, PATH and the layout after the
\* call, and the steps of main with their outcome.

\* how many probe and install calls are followed
MaxCalls == 2

\* the directory of the well-known location that holds the tool
CommonDir == "C:/ffmpeg"

\* ffmpeg_dir of install_ffmpeg_windows, and ./ffmpeg of check_command
AppFfmpegDir == "app/ffmpeg"

\* the PATH a process can be launched with
InitialPaths == {<<"/usr/bin">>, <<"/usr/bin", AppFfmpegDir>>,
                 <<CommonDir, "/usr/bin">>}

\* os.path.exists and os.access of the tool in a directory of PATH
HasTool(path_dir, l) ==
    \/ path_dir = "/usr/bin" /\ l.path
    \/ path_dir = CommonDir /\ l.common
    \/ path_dir = AppFfmpegDir /\ l.exe
    \/ path_dir = "app" /\ l.cwdexe

\* the loop over path_dirs
InPath(path, l) == \E i \in 1..Len(path) : HasTool(path[i], l)

Probed(val, path, l) ==
    [val |-> val, exc |-> "", path |-> path, media |-> l, did |-> <<>>]

\* check_command("ffmpeg", name) with its effect on PATH: only a tool found
\* in a well-known location (Windows) has its directory put in front of PATH;
\* the fallback `ffmpeg --version` finds the tool only through PATH
check_command_ffmpeg(path, l, system) ==
    IF InPath(path, l) THEN Probed(PyTrue, path, l)
    ELSE IF l.cwdexe THEN Probed(PyTrue, path, l)
    ELSE IF l.exe THEN Probed(PyTrue, path, l)
    ELSE IF system = "Windows" /\ l.common
    THEN Probed(PyTrue, <<CommonDir>> \o path, l)
    ELSE Probed(PyFalse, path, l)

\* what can go wrong in an install of the media tool
FfmpegFaults == {"none", "download", "no_exe", "oserror"}

\* install_ffmpeg_windows: download and extract, copy the executables to
\* ffmpeg_dir, put ffmpeg_dir in front of PATH, then run <ffmpeg_dir>/ffmpeg;
\* every exception is caught and gives False
install_ffmpeg_windows(path, l, fault) ==
    IF fault \in {"download", "no_exe"} THEN Probed(PyFalse, path, l)
    ELSE Probed(IF fault = "oserror" THEN PyFalse ELSE PyTrue,
                <<AppFfmpegDir>> \o path,
                [l EXCEPT !.dir = TRUE, !.exe = TRUE])

\* install_ffmpeg: by platform; on macOS and Linux the package manager puts
\* the tool in a PATH directory and check_command("ffmpeg") is the result
install_ffmpeg(path, l, system, fault) ==
    IF system = "Windows" THEN install_ffmpeg_windows(path, l, fault)
    ELSE IF system \in {"Darwin", "Linux"}
    THEN IF fault = "none"
         THEN check_command_ffmpeg(path, [l EXCEPT !.path = TRUE], system)
         ELSE Probed(PyFalse, path, l)
    ELSE Probed(PyFalse, path, l)

\* a step of main and whether it succeeded
Step(name, ok) == [step |-> name, ok |-> ok]

\* main of setup.py: the runtime (installed when missing), the media tool
\* (installed when missing), the directories, pip, the package bootstrap;
\* returns julia_path and ffmpeg_ok
main(env, path, l, fault) ==
    LET chk == check_julia_installation(env)
        ens == ensure_julia_installation(env)
        julia_path == IF Truthy(chk.val) THEN chk.val ELSE ens.val
        s1 == IF Truthy(chk.val) THEN <<Step("julia_check", TRUE)>>
              ELSE <<Step("julia_check", FALSE),
                     Step("julia_install", ens.exc = "" /\ Truthy(ens.val))>>
        probe == check_command_ffmpeg(path, l, env.system)
        ins == install_ffmpeg(probe.path, probe.media, env.system, fault)
        ff == IF Truthy(probe.val) THEN probe ELSE ins
        s2 == s1 \o IF Truthy(probe.val) THEN <<Step("ffmpeg_check", TRUE)>>
                    ELSE <<Step("ffmpeg_check", FALSE),
                           Step("ffmpeg_install", Truthy(ins.val))>>
        s3 == s2 \o <<Step("makedirs", TRUE), Step("pip", TRUE)>>
        pk == setup_julia_packages(julia_path, env)
        s4 == Append(s3, Step("bootstrap", Truthy(pk.val)))
        out(val, exc, r, steps) ==
            [val |-> val, exc |-> exc, path |-> r.path, media |-> r.media,
             did |-> steps]
    IN  IF ~Truthy(chk.val) /\ ens.exc # ""
        THEN out(PyNone, ens.exc, Probed(PyNone, path, l), s1)
        ELSE IF ~Truthy(julia_path)
        THEN out(PyFalse, "", Probed(PyNone, path, l), s1)
        ELSE IF ~Truthy(pk.val) THEN out(PyFalse, "", ff, s4)
        ELSE out(IF Truthy(ff.val) THEN ff.val ELSE PyFalse, "", ff, s4)

\* the hosts the probe is followed on
ProbeHosts ==
    {h \in Hosts : /\ h.machine = "AMD64"
                   /\ ~h.progress_raises
                   /\ h.pkg_fail = 0
                   /\ h.pyjulia_ok
                   /\ h.fail_at \in {"none", "download"}}

InitProbe ==
    /\ host \in ProbeHosts
    /\ \E l \in SoloLayouts :
          world = [NoWorld EXCEPT !.media = l, !.faults = FfmpegFaults,
                                  !.probe = host.probe]
    /\ \E p \in InitialPaths :
          boot = [Booted(world.media.flag) EXCEPT !.environ.PATH = p,
                                                   !.launch_path = p]
    /\ JULIA_PATH = check_julia_installation(host).val
    /\ FFMPEG_FOUND = world.media.flag
    /\ job = [j \in Jobs |-> IdleJob]
    /\ issued = 0
    /\ temp_uploads = EmptyMap
    /\ aux = EmptyMap
    /\ cwd = EmptyMap
    /\ output_maps = EmptyMap
    /\ handler = "idle"
    /\ inst = NoRun

\* the record of a probe call r, and its effect on PATH and on the host
ProbeCall(op, r) ==
    /\ inst' = [Run(op, Ret(r.val, <<>>)) EXCEPT
                    !.exc = r.exc, !.did = r.did, !.runs = inst.runs + 1]
    /\ boot' = [boot EXCEPT !.environ.PATH = r.path]
    /\ world' = [world EXCEPT !.media = r.media]
    /\ UNCHANGED <<JULIA_PATH, FFMPEG_FOUND, job, issued, temp_uploads, aux,
                   cwd, output_maps, handler, host>>

CallCheckCommand ==
    /\ inst.runs < MaxCalls
    /\ ProbeCall("check_command",
                 check_command_ffmpeg(boot.environ.PATH, world.media, host.system))

CallInstallFfmpeg ==
    /\ inst.runs < MaxCalls
    /\ \E fault \in world.faults :
          ProbeCall("install_ffmpeg",
                    install_ffmpeg(boot.environ.PATH, world.media, host.system,
                                   fault))

CallMain ==
    /\ inst.runs < MaxCalls
    /\ \E fault \in world.faults :
          ProbeCall("main", main(host, boot.environ.PATH, world.media, fault))

NextProbe == CallCheckCommand \/ CallInstallFfmpeg \/ CallMain

SpecProbe == InitProbe /\ [][NextProbe]_vars

\* ============================================================ properties
Done(j) == job[j].pc = "done"

\* the call returned the path of an archive
Succeeded(j) == Done(j) /\ job[j].result.kind = "path"

\* the call returned an error value
Failed(j) == Done(j) /\ job[j].result.kind \in {"update", "str"}

\* the lines of the job's process_log.txt
LogOf(j) ==
    IF job[j].job_id \in DOMAIN output_maps
    THEN output_maps[job[j].job_id].log ELSE <<>>

LogHas(j, line) == \E i \in 1..Len(LogOf(j)) : LogOf(j)[i] = line

\* the archive a successful call returned
ZipOf(j) == output_maps[job[j].job_id].zips[zip_name(j)]

\* C1: when a call of process_audio_file that got past the copy step
\* finishes, on any outcome, temp_uploads/<original file name> does not exist.
C1_CopyRemovedAtFinish ==
    [][\A j \in Jobs :
         (/\ job'[j].pc = "done"
          /\ \/ job[j].pc \in {"spawn", "exited", "package"}
             \/ job[j].pc = "upload" /\ job'[j].result = Raised("OSError: log"))
         => file_name(j) \notin DOMAIN temp_uploads']_vars

\* C2: a call whose external process exited 0 returns an archive only if
\* exactly one folder of the working directory matched the convention.
C2_SuccessNeedsExactlyOneMatch ==
    \A j \in Jobs : Succeeded(j) => Cardinality(job[j].generated_folders) = 1

\* C3: every member of a success archive is named <discovered folder>/<path
\* of the file relative to that folder>, so the archive has one top-level
\* entry, and no two files have the same member name.
C3_MemberNames ==
    \A j \in Jobs : Succeeded(j) =>
        LET z == ZipOf(j)
        IN  /\ \A e \in z.entries : e.name = <<z.root>> \o e.file
            /\ \A e \in z.entries : e.name[1] = job[j].generated_folder
            /\ \A e1, e2 \in z.entries : e1.name = e2.name => e1 = e2

\* C4: of two calls that were in progress at the same time for audio files
\* with the same base name, at least one ends with an error.
C4_SameNameOverlapOneFails ==
    \A j, k \in Jobs :
        (/\ k \in job[j].overlaps
         /\ Done(j) /\ Done(k)
         /\ file_name(j) = file_name(k))
        => ~(Succeeded(j) /\ Succeeded(k))

\* C5: no failure of a job step leaves process_audio_file as an exception.
C5_NoExceptionEscapes ==
    \A j \in Jobs : job[j].result.kind # "raised"

\* the raw diagnostic texts written to the logs
RawTexts ==
    UNION {{output_maps[id].log[i].raw : i \in 1..Len(output_maps[id].log)} :
              id \in DOMAIN output_maps} \ {""}

\* the call failed on a non-zero exit or in the except clause
FailedWithText(j) ==
    /\ Failed(j)
    /\ \/ job[j].rc # 0
       \/ \E t \in RawTexts : LogHas(j, LR("Unexpected error: ", t))

C7_SlotWriteOnce ==
    [][/\ Truthy(JULIA_PATH) => JULIA_PATH' = JULIA_PATH
       /\ \A j \in Jobs :
             (job[j].pc = "spawn" /\ job'[j].pc = "running") => IsStr(JULIA_PATH)]_vars

\* C8: install_julia yields an explicit failure (False or an exception) or a
\* path on which the installer ran a version probe.
C8_InstallerResultVerified ==
    inst.op = "install_julia" =>
        \/ inst.exc # ""
        \/ inst.val = PyFalse
        \/ /\ IsStr(inst.val)
           /\ \E i \in 1..Len(inst.calls) : inst.calls[i] = VersionProbe(inst.val.v)

\* C9: when a call returns an archive path, the folder it discovered is not
\* in the working directory.
C9_FolderGoneOnSuccess ==
    [][\A j \in Jobs :
         (job[j].pc # "done" /\ job'[j].pc = "done" /\ job'[j].result.kind = "path")
         => job[j].generated_folder \notin DOMAIN cwd']_vars

\* C9 witness: a call returned an archive of a folder that no longer exists
C9_Witness ==
    \E j \in Jobs : Succeeded(j) /\ job[j].generated_folder \notin DOMAIN cwd

\* the name without its last extension, found by search: the longest proper
\* prefix that is followed by a dot with no later dot and is not only dots
Stem(name) ==
    LET cuts == {n \in 1..(Len(name) - 1) :
                    /\ name[n + 1] = "."
                    /\ \A i \in (n + 2)..Len(name) : name[i] # "."
                    /\ \E i \in 1..n : name[i] # "."}
    IN  IF cuts = {} THEN name ELSE SubSeq(name, 1, CHOOSE n \in cuts : TRUE)

\* C10: a successful call returns
\* output_maps/<job id>/<base name without extension>_beatsaber_maps.zip, and
\* that file is in the job's own output folder.
C10_ArchivePath ==
    \A j \in Jobs : Succeeded(j) =>
        LET name == job[j].audio[Len(job[j].audio)]
            zip == Stem(name) \o <<"_beatsaber_maps.zip">>
        IN  /\ job[j].result.path = << <<"output_maps">>, <<job[j].job_id>>, zip >>
            /\ job[j].job_id \in DOMAIN output_maps
            /\ zip \in DOMAIN output_maps[job[j].job_id].zips
            /\ output_maps[job[j].job_id].zips[zip].complete

\* C10 witness: a successful call for a file name with two dots
C10_Witness ==
    \E j \in Jobs : Succeeded(j) /\ file_name(j) = <<"a", ".", "b", ".", "w">>

\* C11: every archive a successful call returns has exactly one member named
\* <discovered folder>/cover.jpg, whether the external process made the cover
\* or the job generated it.
C11_OneCover ==
    \A j \in Jobs : Succeeded(j) =>
        Cardinality({e \in ZipOf(j).entries :
                        e.name = <<job[j].generated_folder, <<"cover.jpg">> >>}) = 1

\* C11 witness: a successful call that had to generate the cover
C11_Witness ==
    \E j \in Jobs :
        /\ Succeeded(j)
        /\ \E i \in 1..Len(job[j].steps) : job[j].steps[i] = "cover"
        /\ \E e \in ZipOf(j).entries : e.file = cover_jpg

\* the path of the job's log file, os.path.join(output_folder, "process_log.txt")
LogPath(j) == <<OUTPUT_DIR, <<job[j].job_id>>, <<log_basename>> >>

\* C12: every call with an audio reference that returns, returns the path of
\* a file: of the zip archive on success, of the job's log file on failure.
C12_ReturnsFilePath ==
    \A j \in Jobs :
        (Done(j) /\ job[j].audio # NoAudio /\ job[j].result.kind # "raised") =>
            /\ job[j].result.kind = "path"
            /\ \/ job[j].result.path = zip_path(j)
               \/ job[j].result.path = LogPath(j)

\* the log lines that describe a failure
ErrorFormats ==
    {"Error: Process returned non-zero exit code ",
     "Error: Could not find generated map folder",
     "Unexpected error: "}

\* C13: a call that created its output folder and returns an error value has
\* written at least one line describing the failure to its log.
C13_FailureIsLogged ==
    \A j \in Jobs :
        (Failed(j) /\ job[j].job_id \in DOMAIN output_maps) =>
            \E i \in 1..Len(LogOf(j)) : LogOf(j)[i].fmt \in ErrorFormats

\* C14: a call whose process exited non-zero with stderr holding "WAV" and
\* "not found" returns an error value, leaves no archive in its output folder
\* and has the missing-package hint in its log, whatever else stderr holds.
C14_MissingPackageHint ==
    \A j \in Jobs :
        (/\ Done(j) /\ job[j].rc # 0
         /\ Has(job[j].err, "WAV") /\ Has(job[j].err, "not found")) =>
            /\ Failed(j)
            /\ output_maps[job[j].job_id].zips = EmptyMap
            /\ LogHas(j, L("Julia WAV package may be missing"))

\* C15: the calls that have a job id have pairwise distinct ids, hence
\* distinct output folders output_maps/<job id>, and a step changes the log
\* or the archives of an output folder only if it is a step of the call
\* whose id names that folder.
C15_OwnOutputFolder ==
    [][/\ \A j, k \in Jobs :
             (j # k /\ job'[j].job_id # "") => job'[j].job_id # job'[k].job_id
       /\ \A id \in DOMAIN output_maps' :
             (id \notin DOMAIN output_maps \/ output_maps'[id] # output_maps[id]) =>
                 \E j \in Jobs : /\ job'[j].job_id = id
                                 /\ job'[j] # job[j]
                                 /\ \A k \in Jobs \ {j} : job'[k] = job[k]]_vars

\* C15 witness: two calls that overlapped have both written a log and an
\* archive
C15_Witness ==
    \E j, k \in Jobs :
        /\ j # k /\ k \in job[j].overlaps
        /\ Succeeded(j) /\ Succeeded(k)
        /\ Len(LogOf(j)) > 0 /\ Len(LogOf(k)) > 0

\* the order of the steps of a job
StepOrder == <<"copy", "difficulties", "config", "spawn", "exit", "discover",
               "cover", "zip", "rmtree", "remove_copy">>

Rank(step) == CHOOSE i \in 1..Len(StepOrder) : StepOrder[i] = step

StepsOf(st) == {st[i] : i \in 1..Len(st)}

\* C16: the steps a call has completed are in the order copy, difficulty
\* file, config file, spawn, exit, discovery, cover, archive, removal of the
\* discovered folder, removal of the processing copy, after every step of
\* the call; none is done before
\* the ones it needs; and a step of the call removes the discovered folder
\* only when the call's archive is completely written.
C16_StepOrder ==
    [][\A j \in Jobs : job'[j] # job[j] =>
         LET st == job'[j].steps
             did == StepsOf(st)
             g == job[j].generated_folder
             id == job'[j].job_id
             written == /\ id \in DOMAIN output_maps'
                        /\ zip_name(j) \in DOMAIN output_maps'[id].zips
                        /\ output_maps'[id].zips[zip_name(j)].complete
         IN  /\ \A a \in 1..(Len(st) - 1) : Rank(st[a]) < Rank(st[a + 1])
             /\ "spawn" \in did => {"copy", "difficulties", "config"} \subseteq did
             /\ "exit" \in did => "spawn" \in did
             /\ "discover" \in did => "exit" \in did
             /\ "zip" \in did => "discover" \in did /\ written
             /\ "rmtree" \in did => "zip" \in did
             /\ "remove_copy" \in did =>
                   file_name(j) \notin DOMAIN temp_uploads'
             /\ (g \in DOMAIN cwd /\ g \notin DOMAIN cwd') =>
                   "rmtree" \in did /\ written]_vars

\* C16 witness: a successful call that did every step, the cover included
C16_Witness ==
    \E j \in Jobs : Succeeded(j) /\ job[j].steps = StepOrder

\* C17: a call returns 'ffmpeg not found' only when check_command cannot
\* locate the media tool, and the config file a call has written holds
\* ffmpeg_path=<the path the call resolved>.
C17_ToolFoundMeansInvoked ==
    \A j \in Jobs :
        /\ (Done(j) /\ job[j].result = NoFfmpeg) => ~check_command(world.media)
        /\ "config" \in StepsOf(job[j].steps) =>
              /\ config_file(j) \in DOMAIN aux
              /\ aux[config_file(j)] =
                    <<"ffmpeg_path=", ffmpeg_path(FFMPEG_FOUND, world.media).v>>

\* the URLs a run opened
Downloads(calls) ==
    {calls[i][2] : i \in {n \in 1..Len(calls) : calls[n][1] = "urlopen"}}

\* C18: on Linux the installer opens only the tarball URL of the machine's
\* architecture: x64 for x86_64, aarch64 for aarch64; on any other machine
\* it fails and opens no URL.
C18_LinuxTarball ==
    (inst.op = "install_julia" /\ host.system = "Linux") =>
        /\ host.machine = "x86_64" =>
              Downloads(inst.calls) \subseteq {JULIA_URLS("Linux", "x64")}
        /\ host.machine = "aarch64" =>
              Downloads(inst.calls) \subseteq {JULIA_URLS("Linux", "aarch64")}
        /\ host.machine \notin {"x86_64", "aarch64"} =>
              /\ Downloads(inst.calls) = {}
              /\ inst.exc # "" \/ ~Truthy(inst.val)

\* C19: on Windows, with no runtime found beforehand, when the download and
\* the installer run succeed and the package and PyJulia setup can succeed,
\* ensure_julia_installation returns a path that was version-probed after
\* the installer ran.
C19_WindowsInstallYieldsPath ==
    (/\ inst.op = "ensure_julia_installation"
     /\ host.system = "Windows"
     /\ host.probe = PyNone
     /\ host.fail_at \notin {"download", "run", "oserror"}
     /\ host.script_exists /\ host.script_ok /\ host.pyjulia_ok) =>
        /\ inst.exc = ""
        /\ IsStr(inst.val)
        /\ \E i, k \in 1..Len(inst.calls) :
              /\ i < k
              /\ inst.calls[i] = <<"tmp/julia-1.8.5-installer.exe">>
              /\ inst.calls[k] = VersionProbe(inst.val.v)

\* C20: when install_julia fails, by returning False or by an exception, it
\* has left no file in the temp directory.
C20_NoTempLeftOnFailure ==
    (inst.op = "install_julia" /\ (inst.exc # "" \/ inst.val = PyFalse)) =>
        inst.temp = {}

\* C21: a run of the macOS installer that mounted the disk image and got its
\* mount point has run the unmount of that mount point, after the mount, by
\* the time it returns.
C21_MountIsUnmounted ==
    (/\ inst.op = "install_julia"
     /\ host.system = "Darwin"
     /\ host.fail_at # "mount"
     /\ \E i \in 1..Len(inst.calls) :
           inst.calls[i] = <<"hdiutil", "attach", "tmp/julia-1.8.5.dmg">>) =>
        \E i, k \in 1..Len(inst.calls) :
            /\ i < k
            /\ inst.calls[i] = <<"hdiutil", "attach", "tmp/julia-1.8.5.dmg">>
            /\ inst.calls[k] = <<"hdiutil", "detach", "/Volumes/Julia-1.8.5">>

\* C22: a run of the bootstrapper with a usable runtime path attempts the
\* install of WAV, FFTW, DSP, JSON, in that order, whatever one of them does
\* (non-zero exit, or the command cannot be run), and then runs the setup
\* script when it exists.
C22_InstallsAreBestEffort ==
    (inst.op = "setup_julia_packages" /\ IsStr(inst.arg)) =>
        /\ Len(inst.calls) >= Len(essential_packages)
        /\ \A i \in 1..Len(essential_packages) :
              inst.calls[i] = PkgAddCmd(inst.arg.v, essential_packages[i])
        /\ host.script_exists =>
              inst.calls[Len(inst.calls)] = SetupScriptCmd(inst.arg.v)

\* C23: the bootstrapper returns True exactly when src/setup.jl exists, was
\* run and exited 0; with the script missing or failing it returns False, and
\* the package installs of phase 1 do not change that.
C23_SuccessIffScript ==
    inst.op = "setup_julia_packages" =>
        /\ inst.exc = ""
        /\ inst.val \in {PyTrue, PyFalse}
        /\ inst.val = PyTrue <=>
              /\ host.script_exists
              /\ host.script_ok
              /\ \E i \in 1..Len(inst.calls) :
                    inst.calls[i] = SetupScriptCmd(inst.arg.v)

\* a run that returns False although all four installs exited 0, because the
\* script is missing
C23_Witness ==
    /\ inst.op = "setup_julia_packages"
    /\ inst.val = PyFalse
    /\ Len(inst.exited0) = Len(essential_packages)
    /\ ~host.script_exists

C25_ProgressFailureIsSwallowed ==
    (inst.runs = 1 /\ host.progress_raises) =>
        LET quiet == [host EXCEPT !.progress_raises = FALSE]
            same(r) == /\ inst.val = r.val
                       /\ inst.exc = r.exc
                       /\ inst.calls = r.calls
        IN  /\ inst.op = "install_julia" => same(install_julia(quiet))
            /\ inst.op = "ensure_julia_installation" =>
                  same(ensure_julia_installation(quiet))
            /\ inst.op = "setup_julia_packages" =>
                  same(setup_julia_packages(inst.arg, quiet))

\* C26: the fractions one run of the bootstrapper reports lie in [0, 1] and
\* never go down while the run goes on: only the last report of a run, the
\* one that ends it, may be lower than the report before it.
C26_ProgressNeverDropsMidway ==
    inst.op = "setup_julia_packages" =>
        /\ \A i \in 1..Len(inst.reports) : inst.reports[i] \in 0..1000
        /\ \A i \in 1..(Len(inst.reports) - 1) :
              \/ inst.reports[i] <= inst.reports[i + 1]
              \/ i + 1 = Len(inst.reports)

\* str.split(sep) of a text of tokens: the lines of the text
RECURSIVE Split(_, _)
Split(text, sep) ==
    LET seps == {i \in 1..Len(text) : text[i] = sep}
        first == CHOOSE i \in seps : \A k \in seps : i <= k
    IN  IF seps = {} THEN <<text>>
        ELSE <<SubSeq(text, 1, first - 1)>>
             \o Split(SubSeq(text, first + 1, Len(text)), sep)

DifficultyOrder == <<"Easy", "Normal", "Hard", "Expert", "ExpertPlus">>

\* C27: whatever checkboxes were ticked, the difficulty file of a job holds
\* one value per line, at least one line, the values in the order Easy,
\* Normal, Hard, Expert, ExpertPlus without repetition, and they are the
\* ticked ones, or all five when none was ticked.
C27_DifficultyFile ==
    \A j \in Jobs :
        (job[j].job_id # "" /\ difficulties_file(j) \in DOMAIN aux) =>
            LET lines == Split(aux[difficulties_file(j)], "\n")
                rank(line) == CHOOSE i \in 1..5 : <<DifficultyOrder[i]>> = line
                ticked == {<<DifficultyOrder[i]>> : i \in {k \in 1..5 : job[j].selected[k]}}
            IN  /\ Len(lines) >= 1
                /\ \A k \in 1..Len(lines) :
                      \E i \in 1..5 : lines[k] = <<DifficultyOrder[i]>>
                /\ \A k \in 1..(Len(lines) - 1) : rank(lines[k]) < rank(lines[k + 1])
                /\ {lines[k] : k \in 1..Len(lines)} =
                      IF ticked = {} THEN {<<DifficultyOrder[i]>> : i \in 1..5}
                      ELSE ticked

\* a job submitted with nothing ticked has written all five values
C27_Witness ==
    \E j \in Jobs :
        /\ job[j].job_id # ""
        /\ job[j].selected = [i \in 1..5 |-> FALSE]
        /\ difficulties_file(j) \in DOMAIN aux
        /\ aux[difficulties_file(j)] =
              <<"Easy", "\n", "Normal", "\n", "Hard", "\n", "Expert", "\n", "ExpertPlus">>

\* C28: the process a job has started got five arguments: a runtime path
\* (a string), src/mapsongs.jl, the job's copy in temp_uploads, then
\* <job id>_difficulties.txt and <job id>_config.txt in temp_uploads; two jobs
\* never pass the same difficulties file or the same config file.
C28_SpawnArguments ==
    \A j \in Jobs :
        job[j].cmd # <<>> =>
            /\ Len(job[j].cmd) = 5
            /\ IsStr(job[j].cmd[1])
            /\ job[j].cmd[1] \in {world.probe} \cup {r.val : r \in world.ensure}
            /\ job[j].cmd[2] = "src/mapsongs.jl"
            /\ job[j].cmd[3] = <<TEMP_DIR, basename(job[j].audio)>>
            /\ job[j].cmd[4] = <<TEMP_DIR, <<job[j].job_id, "_difficulties.txt">> >>
            /\ job[j].cmd[5] = <<TEMP_DIR, <<job[j].job_id, "_config.txt">> >>
            /\ \A k \in Jobs \ {j} :
                  job[k].cmd # <<>> =>
                      /\ job[k].cmd[4] # job[j].cmd[4]
                      /\ job[k].cmd[5] # job[j].cmd[5]

\* two jobs of the same upload name have both started their process
C28_Witness ==
    \E j, k \in Jobs :
        /\ j # k
        /\ job[j].cmd # <<>> /\ job[k].cmd # <<>>
        /\ job[j].cmd[3] = job[k].cmd[3]

\* C29: a call with no audio reference returns None and changes nothing: the
\* call draws no job id, creates no output directory and no log, copies no
\* file, leaves the runtime-path slot alone, starts no installation and no
\* process, and what other calls hold is untouched.
C29_NullAudioIsNoOp ==
    [][\A j \in Jobs :
          (job[j].pc = "idle" /\ job'[j].pc # "idle" /\ job'[j].audio = NoAudio) =>
              /\ job'[j] = [IdleJob EXCEPT
                               !.pc = "done",
                               !.result = [kind |-> "None", msg |-> <<>>, path |-> <<>>]]
              /\ \A k \in Jobs \ {j} : job'[k] = job[k]
              /\ UNCHANGED <<boot, JULIA_PATH, FFMPEG_FOUND, issued, temp_uploads, aux,
                             cwd, output_maps, handler>>]_vars

\* a call without audio has returned while an earlier job is in progress
C29_Witness ==
    \E j, k \in Jobs :
        /\ job[j].pc = "done" /\ job[j].audio = NoAudio
        /\ job[j].result.kind = "None"
        /\ job[k].pc = "running"

\* C30: the application replaces its own image at most once and runs the
\* dependency installation at most once; the guard is '1' from before the
\* installation on, it is '1' in the image the re-exec starts, and a process
\* that found the guard set (the re-executed image, or one launched with the
\* guard) neither installs nor re-executes.
C30_RestartAtMostOnce ==
    /\ boot.image <= 1
    /\ boot.installs <= 1
    /\ boot.pc \in {"install", "execv"} =>
          /\ boot.environ.BEATSABER_APP_STARTED = Str("1")
          /\ boot.image = 0
          /\ boot.launch_guard # Str("1")
    /\ boot.installs = 1 => boot.environ.BEATSABER_APP_STARTED = Str("1")
    /\ boot.image = 1 =>
          /\ boot.environ.BEATSABER_APP_STARTED = Str("1")
          /\ boot.installs = 1
    /\ boot.launch_guard = Str("1") => boot.installs = 0 /\ boot.image = 0

\* launched without the guard, the application has installed, re-executed
\* once and is serving in the second image
C30_Witness ==
    /\ boot.launch_guard = PyNone
    /\ boot.image = 1
    /\ boot.installs = 1
    /\ boot.pc = "serving"

\* C35: the folder a successful call has archived (and removed) was created
\* by the external process of that same call.
C35_ArchivedFolderIsOwn ==
    \A j \in Jobs : Succeeded(j) => ZipOf(j).by = job[j].job_id

\* C36: once a call has returned, temp_uploads holds nothing the call put
\* there: not its copy of the upload, not <job id>_difficulties.txt, not
\* <job id>_config.txt.
C36_NothingLeftInTempUploads ==
    \A j \in Jobs :
        (Done(j) /\ job[j].job_id # "") =>
            /\ \A name \in DOMAIN temp_uploads :
                  temp_uploads[name] # job[j].audio
            /\ <<job[j].job_id, "_difficulties.txt">> \notin DOMAIN aux
            /\ <<job[j].job_id, "_config.txt">> \notin DOMAIN aux

\* C37: the output directory of a call that returned an error value holds no
\* archive.
C37_FailedLeavesNoArchive ==
    \A j \in Jobs :
        (Failed(j) /\ job[j].job_id \in DOMAIN output_maps) =>
            DOMAIN output_maps[job[j].job_id].zips = {}

\* C38: a call of download_file whose request or read fails leaves its target
\* as it was, leaves no temporary file, and raises the error of the request
\* to its caller; the target exists only after a call that returned.
C38_DownloadAllOrNothing ==
    inst.op = "download_file" =>
        IF host.fail_at = "download"
        THEN /\ inst.exc = "URLError: download failed"
             /\ inst.temp = {}
        ELSE /\ inst.exc = ""
             /\ inst.val = inst.arg
             /\ inst.temp = {inst.arg.v}

\* C39: ensure_julia_installation calls its steps in the order check,
\* install, packages, pyjulia; it calls the installer exactly when the check
\* found no working runtime, calls no step after one that failed and then
\* returns None, and returns the runtime path only after all of them
\* succeeded.
C39_EnsureStepsInOrder ==
    inst.op = "ensure_julia_installation" =>
        LET found == IsStr(host.probe)
            ins == install_julia(host)
            have == found \/ (ins.exc = "" /\ Truthy(ins.val))
            path == IF found THEN host.probe ELSE ins.val
            pk_ok == have /\ setup_julia_packages(path, host).val = PyTrue
            pj_ok == pk_ok /\ host.pyjulia_ok
        IN  /\ inst.exc = ""
            /\ inst.did = <<"check">>
                           \o (IF found THEN <<>> ELSE <<"install">>)
                           \o (IF have THEN <<"packages">> ELSE <<>>)
                           \o (IF pk_ok THEN <<"pyjulia">> ELSE <<>>)
            /\ inst.val = IF pj_ok THEN path ELSE PyNone

\* C34: on a host with a working runtime, the package-setup handler gives the
\* bootstrapper the path of that runtime, and answers with the success
\* message whenever the bootstrapper returns True for that path.
C34_HandlerPassesRuntimePath ==
    (inst.op = "setup_julia_packages_handler" /\ IsStr(host.probe)) =>
        /\ inst.arg = check_julia_installation(host).val
        /\ setup_julia_packages(check_julia_installation(host).val, host).val = PyTrue
              => inst.val = Str("Julia packages set up successfully!")

\* number of occurrences of a directory in a PATH
Count(path, d) == Cardinality({i \in 1..Len(path) : path[i] = d})

\* C31: when the probe has returned True, the media tool is in a directory of
\* PATH: the directory of a tool found in the working directory, below
\* ./ffmpeg or in a well-known location has been put there.
C31_FoundToolIsOnPath ==
    (inst.op = "check_command" /\ inst.val = PyTrue) =>
        InPath(boot.environ.PATH, world.media)

\* C32: after any calls of the probe and of the install, PATH has every
\* entry it was launched with, and each directory at most once more than at
\* launch.
C32_PathGrowsOnceOnly ==
    /\ \A i \in 1..Len(boot.launch_path) :
          Count(boot.environ.PATH, boot.launch_path[i]) >=
              Count(boot.launch_path, boot.launch_path[i])
    /\ \A i \in 1..Len(boot.environ.PATH) :
          Count(boot.environ.PATH, boot.environ.PATH[i]) <=
              Count(boot.launch_path, boot.environ.PATH[i]) + 1

\* C33: in a run of main, a failed install of the runtime, a failed install
\* of the media tool and a failed package bootstrap are each the last step of
\* the run, and the run does not return a true value.
C33_FailedStepAbortsSetup ==
    inst.op = "main" =>
        \A i \in 1..Len(inst.did) :
            (/\ inst.did[i].step \in {"julia_install", "ffmpeg_install", "bootstrap"}
             /\ ~inst.did[i].ok) =>
                /\ i = Len(inst.did)
                /\ ~Truthy(inst.val)
====
